---- MODULE Spec2Model ----
(***************************************************************************)
(* A model of igl::readMESH (readMESH.h): the generic reader that scans a  *)
(* .mesh file with fgets/sscanf/fscanf and fills V, T and F, and the       *)
(* overload that calls it and converts the three lists to matrices.        *)
(*                                                                         *)
(* The input file is a sequence of items.  An item is a whitespace-        *)
(* delimited token (a string), the newline character NL, or SP, a          *)
(* whitespace character written out explicitly (it matters only where the  *)
(* code looks at line[0]).  Two adjacent tokens on a line are separated by *)
(* one space character.  The stream position is (pos, sep): pos is the     *)
(* index of the next unread item, sep tells that the stream stands right   *)
(* after a token, so that the next character is the separating space when  *)
(* the next item is a token.                                               *)
(*                                                                         *)
(* A size_t value is represented by the signed integer congruent to it     *)
(* modulo 2^64 (two's complement), so that a negative representative is a  *)
(* value of at least 2^63.                                                 *)
(***************************************************************************)
EXTENDS Integers, Sequences, FiniteSets, TLC

VARIABLES
  file,     \* the content of the file named mesh_file_name
  exists,   \* whether fopen can open it
  mesh,     \* ghost: the data the file was written from
  edit,     \* ghost: how the written file was altered
  pc,       \* position in readMESH
  sec,      \* which of the five sections is being read (1..5)
  pos,      \* stream position: index of the next unread item
  sep,      \* stream stands right after a token
  fh,       \* mesh_file: "none", "open" or "closed"
  line,     \* char line[LINE_MAX]
  str,      \* char str[LINE_MAX]
  fresh,    \* ghost: the last fgets of this comment loop stored a line
  ncount,   \* number_of_vertices / number_of_triangles / number_of_tetrahedra
  i,        \* loop index of the record loops
  V, T, F,  \* the caller's output lists
  ret,      \* "none" while running, then "true", "false" or "throw"
  err,      \* the message written to stderr/stdout, as a sequence of words
  seen,     \* ghost: what each keyword check was handed
  over,     \* the call is made through the overload that fills matrices
  opc,      \* position in that overload
  MV, MT, MF, \* the caller's matrices V, T and F of the overload
  oret      \* what the overload returns: "none", "true", "false", "throw", "abort"

\* the state of the overload; with over, V, T and F are its locals vV, vT, vF
ovars == <<over, opc, MV, MT, MF, oret>>

vars == <<file, exists, mesh, edit, pc, sec, pos, sep, fh, line, str, fresh,
          ncount, i, V, T, F, ret, err, seen, ovars>>

(***************************************************************************)
(* Bounds of the model.                                                    *)
(***************************************************************************)
MaxN == 2      \* largest number of vertex records written
MaxM == 2      \* largest number of triangle records written
MaxK == 1      \* largest number of tetrahedron records written

(***************************************************************************)
(* Characters and tokens.                                                  *)
(***************************************************************************)
NL == "\n"
SP == " "
LINE_MAX == 2048

IsToken(it) == it # NL /\ it # SP

\* number of characters of an item
Width(it) == Len(it)

NumRange == -1 .. (MaxN + MaxM + MaxK + 9)

\* A numeric conversion of scanf on a whole token: the token is the decimal
\* text of a number.  The numbers of the files are those of NumRange, which
\* int, long and double all hold, so %d, %ld and %lg convert the same tokens.
IsNum(tok) == \E n \in NumRange : ToString(n) = tok
NumVal(tok) == CHOOSE n \in NumRange : ToString(n) = tok

Keyword == <<"MeshVersionFormatted", "Dimension", "Vertices", "Triangles",
             "Tetrahedra">>

(***************************************************************************)
(* The files the reader is run on.  A file is written from a mesh          *)
(* description in the layout of the format, then altered by at most one    *)
(* edit.  mesh and edit are kept beside the file so that what the reader   *)
(* returns can be compared with what was written.                          *)
(***************************************************************************)
\* vertex index n of a mesh of N vertices, folded into 1..N
Idx(n, N) == IF N = 0 THEN n ELSE ((n - 1) % N) + 1

VertexRow(r) == <<r - 2, r, 0>>
FaceRow(r, N) == <<Idx(r, N), Idx(r + 1, N), Idx(r + 2, N)>>
TetRow(r, N) == <<Idx(r, N), Idx(r + 1, N), Idx(r + 2, N), Idx(r + 3, N)>>

Verts(m) == [r \in 1..m.N |-> VertexRow(r)]
Faces(m) == [r \in 1..m.M |-> FaceRow(r, m.N)]
Tets(m)  == [r \in 1..m.K |-> TetRow(r, m.N)]

\* one record line: the fields, the reference id 0, the newline
RecLine(row) == [j \in 1..Len(row) |-> ToString(row[j])] \o <<"0", NL>>

RECURSIVE RecLines(_)
RecLines(rows) ==
  IF rows = <<>> THEN <<>> ELSE RecLine(Head(rows)) \o RecLines(Tail(rows))

HdrLines(kw, val, onNext) ==
  IF onNext THEN <<kw, NL, ToString(val), NL>> ELSE <<kw, ToString(val), NL>>

Section(kw, rows) == <<kw, NL, ToString(Len(rows)), NL>> \o RecLines(rows)

Written(m) ==
  HdrLines(Keyword[1], m.ver, m.verNL) \o HdrLines(Keyword[2], m.dim, m.dimNL)
    \o Section(Keyword[3], Verts(m)) \o Section(Keyword[4], Faces(m))
    \o Section(Keyword[5], Tets(m))

\* a string of n characters
RECURSIVE Rep(_)
Rep(n) ==
  IF n = 0 THEN ""
  ELSE IF n % 2 = 0 THEN LET h == Rep(n \div 2) IN h \o h
  ELSE "x" \o Rep(n - 1)

\* a word that, after "# ", fills the line buffer exactly
LongWord == Rep(LINE_MAX - 3)

\* the lines an "ins" edit can insert
InsLine(kind) ==
  CASE kind = "blank" -> <<NL>>
    [] kind = "hash"  -> <<"#", "c", NL>>
    [] kind = "mixed" -> <<NL, "#", "c", NL, NL, "#", NL>>
    [] kind = "space" -> <<SP, NL>>
    [] kind = "long"  -> <<"#", LongWord, "z", NL>>

LineStart(f, p) == p = 1 \/ (p > 1 /\ p <= Len(f) + 1 /\ f[p - 1] = NL)

Remove(f, p) == SubSeq(f, 1, p - 1) \o SubSeq(f, p + 1, Len(f))
Insert(f, p, its) == SubSeq(f, 1, p - 1) \o its \o SubSeq(f, p, Len(f))

Apply(base, e) ==
  CASE e.op = "none"  -> base
    [] e.op = "trunc" -> SubSeq(base, 1, e.at)
    [] e.op = "ins"   -> Insert(base, e.at, InsLine(e.tok))
    [] e.op = "put"   -> Insert(base, e.at, <<e.tok>>)
    [] e.op = "repl"  -> [base EXCEPT ![e.at] = e.tok]
    [] e.op = "del"   -> Remove(base, e.at)
    [] e.op = "only"  -> InsLine(e.tok)

NoEdit == [op |-> "none", at |-> 0, tok |-> ""]

\* tokens a "repl" edit writes over an item
ReplToks == {"Vertices", "Triangles", "vertices", "x", "#", "-1", "0", "2", SP}

Plain == [ver |-> 1, dim |-> 3, verNL |-> FALSE, dimNL |-> FALSE]

Counts == [N : 0..MaxN, M : 0..MaxM, K : 0..MaxK]
Full == [N |-> MaxN, M |-> MaxM, K |-> MaxK]

MeshOf(h, c) == [ver |-> h.ver, dim |-> h.dim, verNL |-> h.verNL,
                 dimNL |-> h.dimNL, N |-> c.N, M |-> c.M, K |-> c.K]

Headers == [ver : {1, 2}, dim : {3, 2}, verNL : BOOLEAN, dimNL : BOOLEAN]

InsKinds == {"blank", "hash", "mixed", "space", "long"}

LineEdits(base) ==
  {[op |-> "ins", at |-> p, tok |-> k] :
     p \in {q \in 1..Len(base) + 1 : LineStart(base, q)}, k \in InsKinds}

ItemEdits(base) ==
  {[op |-> "trunc", at |-> p, tok |-> ""] : p \in 0..Len(base) - 1}
    \cup {[op |-> "repl", at |-> p, tok |-> t] : p \in 1..Len(base), t \in ReplToks}
    \cup {[op |-> "del", at |-> p, tok |-> ""] : p \in 1..Len(base)}
    \cup {[op |-> "put", at |-> p, tok |-> t] : p \in 1..Len(base), t \in {NL, SP}}

EditsOf(m, edits) == {[mesh |-> m, edit |-> e] : e \in edits}

\* every header with the largest mesh, and every mesh with the plain header,
\* as written and with one line inserted; the largest mesh with the values of
\* the header on the keywords' lines or on the next lines, with one item edit;
\* files of a single line
Cases ==
  UNION {EditsOf(MeshOf(h, Full), {NoEdit} \cup LineEdits(Written(MeshOf(h, Full)))) :
           h \in Headers}
    \cup UNION {EditsOf(MeshOf(Plain, c),
                        {NoEdit} \cup LineEdits(Written(MeshOf(Plain, c)))) :
                 c \in Counts}
    \cup UNION {EditsOf(MeshOf(h, Full), ItemEdits(Written(MeshOf(h, Full)))) :
                 h \in {hh \in Headers : hh.ver = 1 /\ hh.dim = 3 /\ hh.verNL = hh.dimNL}}
    \cup EditsOf(MeshOf(Plain, Full),
                 {[op |-> "only", at |-> 0, tok |-> k] : k \in {"blank", "hash", "space"}})

(***************************************************************************)
(* The C library calls the reader makes.                                   *)
(***************************************************************************)
\* what an automatic array holds before it is written: not a value the model
\* may look at; each read of it picks one of the contents the stack can hold
Indeterminate == "(indeterminate)"

\* contents of line left on the stack, among them lines of an earlier call
GarbageLines == {<<>>, <<NL>>, <<"#", NL>>, <<"junk", NL>>,
                 <<"MeshVersionFormatted", "1", NL>>}

\* contents of str left on the stack, among them keywords of an earlier call
GarbageStrs == {"", "junk", "MeshVersionFormatted", "Tetrahedra"}

\* fgets(line,LINE_MAX,mesh_file) at position (p, s) with items left to read:
\* the items up to and including the next newline, as far as LINE_MAX-1
\* characters go (FgetsTake is the number of items consumed).  A line that
\* does not fit is cut between two items: the files of the model have no item
\* that straddles the end of the buffer.
RECURSIVE FgetsTake(_, _, _, _)
FgetsTake(f, q, used, prevTok) ==
  IF q > Len(f) THEN 0
  ELSE LET cost == Width(f[q]) + (IF prevTok /\ IsToken(f[q]) THEN 1 ELSE 0)
       IN  IF used + cost > LINE_MAX - 1 THEN 0
           ELSE IF f[q] = NL THEN 1
           ELSE 1 + FgetsTake(f, q + 1, used + cost, IsToken(f[q]))

Fgets(f, p, s) ==
  LET n == FgetsTake(f, p, 0, s)
      lead == IF s /\ IsToken(f[p]) THEN <<SP>> ELSE <<>>
  IN  [buf |-> lead \o SubSeq(f, p, p + n - 1),
       pos |-> p + n,
       sep |-> n > 0 /\ IsToken(f[p + n - 1])]

\* the whitespace-delimited tokens of a line buffer
Tokens(buf) == SelectSeq(buf, IsToken)

\* only a line that starts with # taken for a comment
IsCommentLine_HashOnly(buf) == buf # <<>> /\ buf[1] = "#"

\* line[0] == '#' || line[0] == '\n'
IsCommentLine(buf) == buf # <<>> /\ (buf[1] = "#" \/ buf[1] = NL)

\* the leading " " of a scanf format: skip white space, newlines included
RECURSIVE SkipWs(_, _)
SkipWs(f, p) ==
  IF p > Len(f) \/ IsToken(f[p]) THEN p ELSE SkipWs(f, p + 1)

\* one " %d", " %ld" or " %lg" conversion at position p
ScanNum(f, p) ==
  LET q == SkipWs(f, p)
  IN  IF q <= Len(f) /\ IsNum(f[q])
      THEN [ok |-> TRUE, val |-> NumVal(f[q]), pos |-> q + 1, sep |-> TRUE]
      ELSE [ok |-> FALSE, val |-> 0, pos |-> q, sep |-> FALSE]

\* fscanf of w numeric conversions: the values converted before the first
\* failure (its return value is their number) and the position reached
RECURSIVE ScanRec(_, _, _, _)
ScanRec(f, p, s, w) ==
  IF w = 0 THEN [vals |-> <<>>, pos |-> p, sep |-> s]
  ELSE LET r == ScanNum(f, p)
       IN  IF ~r.ok THEN [vals |-> <<>>, pos |-> r.pos, sep |-> r.sep]
           ELSE [ScanRec(f, r.pos, r.sep, w - 1) EXCEPT !.vals = <<r.val>> \o @]

\* what sscanf(line,"%s %d",str,&one) returns and stores in one
SscanfWordInt(buf) ==
  LET toks == Tokens(buf)
  IN  IF toks = <<>> THEN [n |-> -1, val |-> -1]
      ELSE IF Len(toks) >= 2 /\ IsNum(toks[2])
           THEN [n |-> 2, val |-> NumVal(toks[2])]
           ELSE [n |-> 1, val |-> -1]

\* the index stored as it is in the file
Rebase_Unshifted(k) == k

\* a 1-based index of the file as it is stored: tri[j]-1 in size_t
Rebase(k) == k - 1

(***************************************************************************)
(* The messages of the reader, as sequences of words.                      *)
(***************************************************************************)
Ordinal == <<"first", "third", "fifth", "sixth", "seventh">>

SectionMsg(k, found) ==
  <<"Error:", Ordinal[k], "word", "should", "be", Keyword[k], "not", found>>

ValueMsg(k, found) ==
  IF k = 1
  THEN <<"Error:", "second", "word", "should", "be", "1", "not", ToString(found)>>
  ELSE <<"Error:", "only", "Dimension", "3", "supported", "not", ToString(found)>>

CountMsg(k) ==
  <<"Error:", "expecting", "number", "of",
    CASE k = 3 -> "vertices..." [] k = 4 -> "triangles..." [] k = 5 -> "tetrahedra...">>

\* (the triangle message is written with printf, the others to stderr)
RecordMsg(k) ==
  <<"Error:", "expecting">> \o
    (CASE k = 3 -> <<"vertex", "position...">>
       [] k = 4 -> <<"triangle", "indices...">>
       [] k = 5 -> <<"tetrahedra", "indices...">>)

OpenMsg == <<"IOError:", "could", "not", "be", "opened...">>

(***************************************************************************)
(* readMESH(mesh_file_name, V, T, F), statement by statement.              *)
(***************************************************************************)
\* rows the caller's lists may hold before the call
Prior == {<<>>, <<<<7, 7, 7>>>>}

\* a matrix: its number of columns and its rows; Matrix0 is the 0 x 0 matrix
Matrix0 == [cols |-> 0, data |-> <<>>]

\* what the caller's matrices may hold before the call
PriorMatrix == {Matrix0, [cols |-> 1, data |-> <<<<9>>>>]}

Init ==
  /\ \/ /\ exists = TRUE
        /\ \E c \in Cases :
             /\ mesh = c.mesh
             /\ edit = c.edit
             /\ file = Apply(Written(c.mesh), c.edit)
     \/ /\ exists = FALSE
        /\ mesh = MeshOf(Plain, Full)
        /\ edit = [op |-> "missing", at |-> 0, tok |-> ""]
        /\ file = <<>>
  /\ \/ /\ over = FALSE
        /\ \E prior \in Prior : V = prior /\ T = prior /\ F = prior
        /\ MV = Matrix0 /\ MT = Matrix0 /\ MF = Matrix0
     \/ /\ over = TRUE
        /\ V = <<>> /\ T = <<>> /\ F = <<>>
        /\ \E m \in PriorMatrix : MV = m /\ MT = m /\ MF = m
  /\ opc = "call"
  /\ oret = "none"
  /\ pc = "open"
  /\ sec = 0
  /\ pos = 1
  /\ sep = FALSE
  /\ fh = "none"
  /\ line = <<Indeterminate>>
  /\ str = Indeterminate
  /\ fresh = FALSE
  /\ ncount = 0
  /\ i = 0
  /\ ret = "none"
  /\ err = <<>>
  /\ seen = <<>>

\* the lists cleared before the failure is reported
OpenFail_Clears ==
  /\ pc = "open"
  /\ ~exists
  /\ V' = <<>>
  /\ T' = <<>>
  /\ F' = <<>>
  /\ err' = OpenMsg
  /\ ret' = "false"
  /\ pc' = "done"
  /\ UNCHANGED <<file, exists, mesh, edit, sec, pos, sep, fh, line, str, fresh,
                 ncount, i, seen>>
  /\ UNCHANGED ovars

\* fopen fails: the message and return false
OpenFail ==
  /\ pc = "open"
  /\ ~exists
  /\ err' = OpenMsg
  /\ ret' = "false"
  /\ pc' = "done"
  /\ UNCHANGED <<file, exists, mesh, edit, sec, pos, sep, fh, line, str, fresh,
                 ncount, i, V, T, F, seen>>
  /\ UNCHANGED ovars

\* fopen succeeds; V.clear(); T.clear(); F.clear(); still_comments = true
Open ==
  /\ pc = "open"
  /\ exists
  /\ fh' = "open"
  /\ V' = <<>>
  /\ T' = <<>>
  /\ F' = <<>>
  /\ sec' = 1
  /\ pc' = "fgets"
  /\ UNCHANGED <<file, exists, mesh, edit, pos, sep, line, str, fresh, ncount,
                 i, ret, err, seen>>
  /\ UNCHANGED ovars

\* fgets(line,LINE_MAX,mesh_file) in a comment loop: at end of file it
\* returns NULL and leaves line as it was
EatFgets ==
  /\ pc = "fgets"
  /\ IF pos > Len(file)
     THEN /\ fresh' = FALSE
          /\ UNCHANGED <<line, pos, sep>>
     ELSE LET r == Fgets(file, pos, sep)
          IN  /\ line' = r.buf
              /\ pos' = r.pos
              /\ sep' = r.sep
              /\ fresh' = TRUE
  /\ pc' = "test"
  /\ UNCHANGED <<file, exists, mesh, edit, sec, fh, str, ncount, i, V, T, F,
                 ret, err, seen>>
  /\ UNCHANGED ovars

\* still_comments = (line[0] == '#' || line[0] == '\n'); while(still_comments)
EatTest ==
  /\ pc = "test"
  /\ \E buf \in (IF line = <<Indeterminate>> THEN GarbageLines ELSE {line}) :
       /\ line' = buf
       /\ pc' = IF IsCommentLine(buf) THEN "fgets" ELSE "word"
  /\ UNCHANGED <<file, exists, mesh, edit, sec, pos, sep, fh, str, fresh,
                 ncount, i, V, T, F, ret, err, seen>>
  /\ UNCHANGED ovars

\* sscanf(line," %s",str); if(0!=strcmp(str,Keyword[sec])) { message; fclose;
\* return false; }
CheckWord ==
  /\ pc = "word"
  /\ LET toks == Tokens(line)
     IN  \E s \in (IF toks # <<>> THEN {toks[1]}
                   ELSE IF str = Indeterminate THEN GarbageStrs ELSE {str}) :
           /\ str' = s
           /\ seen' = Append(seen, [fresh |-> fresh,
                                    tok |-> IF toks # <<>> THEN toks[1] ELSE ""])
           /\ IF s # Keyword[sec]
              THEN /\ err' = SectionMsg(sec, s)
                   /\ fh' = "closed"
                   /\ ret' = "false"
                   /\ pc' = "done"
              ELSE /\ pc' = IF sec <= 2 THEN "value" ELSE "count"
                   /\ UNCHANGED <<err, fh, ret>>
  /\ UNCHANGED <<file, exists, mesh, edit, sec, pos, sep, line, fresh, ncount,
                 i, V, T, F>>
  /\ UNCHANGED ovars

\* the value MeshVersionFormatted (k = 1) and Dimension (k = 2) must have
Mandated(k) == IF k = 1 THEN 1 ELSE 3

\* a value that is not on the keyword's line taken to be the mandated one
ScannedValue_NoFallback(k, here, next) ==
  IF here.n = 2 THEN here.val ELSE Mandated(k)

\* the value of one (k = 1) or three (k = 2) after  int one = -1;
\* if(2 != sscanf(line,"%s %d",str,&one)) fscanf(mesh_file," %d",&one);
ScannedValue(k, here, next) ==
  IF here.n = 2 THEN here.val
  ELSE IF next.ok THEN next.val ELSE -1

\* int one = -1; if(2 != sscanf(line,"%s %d",str,&one)) fscanf(mesh_file," %d",&one);
\* if(one != 1) { message; fclose; return false; }   (and the same for three)
\* The sscanf stores in str the token the keyword check stored there, or
\* nothing when the line has no token.
CheckValue ==
  /\ pc = "value"
  /\ LET here == SscanfWordInt(line)
         next == ScanNum(file, pos)
         one  == ScannedValue(sec, here, next)
     IN  /\ IF here.n = 2
            THEN UNCHANGED <<pos, sep>>
            ELSE pos' = next.pos /\ sep' = next.sep
         /\ IF one # Mandated(sec)
            THEN /\ err' = ValueMsg(sec, one)
                 /\ fh' = "closed"
                 /\ ret' = "false"
                 /\ pc' = "done"
                 /\ UNCHANGED sec
            ELSE /\ sec' = sec + 1
                 /\ pc' = "fgets"
                 /\ UNCHANGED <<err, fh, ret>>
  /\ UNCHANGED <<file, exists, mesh, edit, line, str, fresh, ncount, i, V, T, F,
                 seen>>
  /\ UNCHANGED ovars

\* one row more than asked for
Resized_OneMore(n, w) == [r \in 1..(n + 1) |-> [j \in 1..w |-> 0]]

\* rows.resize(n, vector(w)): n rows of w zeros; a size beyond max_size()
\* (a negative representative) throws std::length_error
Resized(n, w) == [r \in 1..n |-> [j \in 1..w |-> 0]]

\* if(1 != fscanf(mesh_file," %ld",&number_of_...)) { message; fclose; return
\* false; }  then resize of the section's list
ReadCount ==
  /\ pc = "count"
  /\ LET r == ScanNum(file, pos)
     IN  /\ pos' = r.pos
         /\ sep' = r.sep
         /\ IF ~r.ok
            THEN /\ err' = CountMsg(sec)
                 /\ fh' = "closed"
                 /\ ret' = "false"
                 /\ pc' = "done"
                 /\ UNCHANGED <<ncount, i, V, T, F>>
            ELSE IF r.val < 0
            THEN /\ ncount' = r.val
                 /\ ret' = "throw"
                 /\ pc' = "done"
                 /\ UNCHANGED <<err, fh, i, V, T, F>>
            ELSE /\ ncount' = r.val
                 /\ i' = 0
                 /\ pc' = "rec"
                 /\ V' = IF sec = 3 THEN Resized(r.val, 3) ELSE V
                 /\ F' = IF sec = 4 THEN Resized(r.val, 3) ELSE F
                 /\ T' = IF sec = 5 THEN Resized(r.val, 4) ELSE T
                 /\ UNCHANGED <<err, fh, ret>>
  /\ UNCHANGED <<file, exists, mesh, edit, sec, line, str, fresh, seen>>
  /\ UNCHANGED ovars

\* number of conversions of the record fscanf of section k
RecWidth(k) == IF k = 5 THEN 5 ELSE 4

\* the row kept with its reference id
StoredRow_WithRef(k, vals) == vals

\* the row stored from the converted values: x,y,z as they are, indices rebased
StoredRow(k, vals) ==
  IF k = 3 THEN SubSeq(vals, 1, 3)
  ELSE [j \in 1..(RecWidth(k) - 1) |-> Rebase(vals[j])]

\* one iteration of a record loop: the fscanf of the record, then either the
\* message and return false, or the assignments to row i
ReadRecord ==
  /\ pc = "rec"
  /\ i < ncount
  /\ LET r == ScanRec(file, pos, sep, RecWidth(sec))
     IN  /\ pos' = r.pos
         /\ sep' = r.sep
         /\ IF Len(r.vals) # RecWidth(sec)
            THEN /\ err' = RecordMsg(sec)
                 /\ fh' = IF sec = 4 THEN fh ELSE "closed"
                 /\ ret' = "false"
                 /\ pc' = "done"
                 /\ UNCHANGED <<i, V, T, F>>
            ELSE /\ i' = i + 1
                 /\ V' = IF sec = 3 THEN [V EXCEPT ![i + 1] = StoredRow(3, r.vals)] ELSE V
                 /\ F' = IF sec = 4 THEN [F EXCEPT ![i + 1] = StoredRow(4, r.vals)] ELSE F
                 /\ T' = IF sec = 5 THEN [T EXCEPT ![i + 1] = StoredRow(5, r.vals)] ELSE T
                 /\ UNCHANGED <<err, fh, ret, pc>>
  /\ UNCHANGED <<file, exists, mesh, edit, sec, line, str, fresh, ncount, seen>>
  /\ UNCHANGED ovars

\* a record loop ends: on to the next comment loop, or fclose and return true
EndRecords ==
  /\ pc = "rec"
  /\ ~(i < ncount)
  /\ IF sec = 5
     THEN /\ fh' = "closed"
          /\ ret' = "true"
          /\ pc' = "done"
          /\ UNCHANGED sec
     ELSE /\ sec' = sec + 1
          /\ pc' = "fgets"
          /\ UNCHANGED <<fh, ret>>
  /\ UNCHANGED <<file, exists, mesh, edit, pos, sep, line, str, fresh, ncount,
                 i, V, T, F, err, seen>>
  /\ UNCHANGED ovars

(***************************************************************************)
(* readMESH(str, V, T, F) on Eigen matrices: the generic reader on local   *)
(* lists vV, vT, vF, then one conversion for each list.                    *)
(***************************************************************************)
\* igl::list_to_matrix(rows, M) for a list that must have w columns: whether
\* every row has w entries, and the matrix it then stores in M
ListToMatrix(rows, w) ==
  [ok  |-> \A r \in DOMAIN rows : Len(rows[r]) = w,
   mat |-> [cols |-> w, data |-> rows]]

\* bool success = igl::readMESH(str,vV,vT,vF); if(!success) return false;
\* (an exception of the generic reader leaves the overload as it left it)
OverReturn ==
  /\ over
  /\ pc = "done"
  /\ opc = "call"
  /\ IF ret = "true"
     THEN opc' = "V_rect" /\ UNCHANGED oret
     ELSE opc' = "done" /\ oret' = ret
  /\ UNCHANGED <<file, exists, mesh, edit, pc, sec, pos, sep, fh, line, str,
                 fresh, ncount, i, V, T, F, ret, err, seen, over, MV, MT, MF>>

\* bool V_rect = igl::list_to_matrix(vV,V); if(!V_rect) return false;
ConvertV ==
  /\ opc = "V_rect"
  /\ LET r == ListToMatrix(V, 3)
     IN  IF r.ok
         THEN MV' = r.mat /\ opc' = "T_rect" /\ UNCHANGED oret
         ELSE oret' = "false" /\ opc' = "done" /\ UNCHANGED MV
  /\ UNCHANGED <<file, exists, mesh, edit, pc, sec, pos, sep, fh, line, str,
                 fresh, ncount, i, V, T, F, ret, err, seen, over, MT, MF>>

\* bool T_rect = igl::list_to_matrix(vT,T); if(!T_rect) return false;
ConvertT ==
  /\ opc = "T_rect"
  /\ LET r == ListToMatrix(T, 4)
     IN  IF r.ok
         THEN MT' = r.mat /\ opc' = "F_rect" /\ UNCHANGED oret
         ELSE oret' = "false" /\ opc' = "done" /\ UNCHANGED MT
  /\ UNCHANGED <<file, exists, mesh, edit, pc, sec, pos, sep, fh, line, str,
                 fresh, ncount, i, V, T, F, ret, err, seen, over, MV, MF>>

\* bool F_rect = igl::list_to_matrix(vF,F); if(!F_rect) return false;
ConvertF ==
  /\ opc = "F_rect"
  /\ LET r == ListToMatrix(F, 3)
     IN  IF r.ok
         THEN MF' = r.mat /\ opc' = "assert" /\ UNCHANGED oret
         ELSE oret' = "false" /\ opc' = "done" /\ UNCHANGED MF
  /\ UNCHANGED <<file, exists, mesh, edit, pc, sec, pos, sep, fh, line, str,
                 fresh, ncount, i, V, T, F, ret, err, seen, over, MV, MT>>

\* assert(V.cols() == 3); assert(T.cols() == 4); assert(F.cols() == 3);
\* return true;
Asserts ==
  /\ opc = "assert"
  /\ oret' = IF MV.cols = 3 /\ MT.cols = 4 /\ MF.cols = 3 THEN "true" ELSE "abort"
  /\ opc' = "done"
  /\ UNCHANGED <<file, exists, mesh, edit, pc, sec, pos, sep, fh, line, str,
                 fresh, ncount, i, V, T, F, ret, err, seen, over, MV, MT, MF>>

Next ==
  \/ OverReturn
  \/ ConvertV
  \/ ConvertT
  \/ ConvertF
  \/ Asserts
  \/ OpenFail
  \/ Open
  \/ EatFgets
  \/ EatTest
  \/ CheckWord
  \/ CheckValue
  \/ ReadCount
  \/ ReadRecord
  \/ EndRecords

Spec == Init /\ [][Next]_vars

\* The call runs on: no statement of it waits for anything.  Termination is
\* checked on the files that end early: the plain file of the largest mesh,
\* whole and cut off after each of its items, and the files of a single line.
InitEndsEarly ==
  /\ Init
  /\ mesh = MeshOf(Plain, Full)
  /\ edit.op \in {"none", "trunc", "only", "missing"}

FairSpec == InitEndsEarly /\ [][Next]_vars /\ WF_vars(Next)

(***************************************************************************)
(* What the claims speak about.                                            *)
(***************************************************************************)
Done == pc = "done"
Returned == Done /\ ret \in {"true", "false"}

Range(q) == {q[n] : n \in DOMAIN q}

\* the rows a faithful read of the written mesh stores
ExpectV == Verts(mesh)
ExpectF == [r \in 1..mesh.M |-> [j \in 1..3 |-> Faces(mesh)[r][j] - 1]]
ExpectT == [r \in 1..mesh.K |-> [j \in 1..4 |-> Tets(mesh)[r][j] - 1]]

GoodHeader == mesh.ver = 1 /\ mesh.dim = 3

\* the item of the written file an edit is placed at
EditTarget == Written(mesh)[edit.at]

\* the edit inserts blank or comment lines right before a section's keyword line
BetweenSections(kinds) ==
  /\ edit.op = "ins"
  /\ edit.tok \in kinds
  /\ edit.at <= Len(Written(mesh))
  /\ EditTarget \in Range(Keyword)

\* the file is in the layout of the format, possibly with inserted lines
WellFormed == GoodHeader /\ edit.op \in {"none", "ins"}

\* where the parts of the written file begin
HeaderLen ==
  Len(HdrLines(Keyword[1], mesh.ver, mesh.verNL))
    + Len(HdrLines(Keyword[2], mesh.dim, mesh.dimNL))
VertSecAt == HeaderLen + 1
FaceSecAt == HeaderLen + Len(Section(Keyword[3], Verts(mesh))) + 1
TetSecAt  == FaceSecAt + Len(Section(Keyword[4], Faces(mesh)))

\* the newline that ends the n-th vertex record (n = 0: the count line)
VertRecEnd(n) == VertSecAt + 3 + n * Len(RecLine(VertexRow(1)))

\* the j-th field of the r-th triangle / tetrahedron record
FacePos(r, j) == FaceSecAt + 3 + (r - 1) * Len(RecLine(FaceRow(1, 1))) + j
TetPos(r, j)  == TetSecAt + 3 + (r - 1) * Len(RecLine(TetRow(1, 1))) + j

\* the count the file declares for the section whose keyword is at p, as far
\* as the written mesh has records for it
Declared(p, most) ==
  IF IsNum(file[p + 2]) /\ NumVal(file[p + 2]) \in 0..most
  THEN NumVal(file[p + 2]) ELSE 0

\* the edit leaves every token of the written file at its place: no edit, or
\* one token overwritten with another
InPlace ==
  \/ edit.op = "none"
  \/ edit.op = "repl" /\ IsToken(EditTarget) /\ IsToken(edit.tok)

\* the edit inserts blank or comment lines inside the Vertices, Triangles or
\* Tetrahedra section: before a count line or before a record line
InsideSection(kinds) ==
  /\ edit.op = "ins"
  /\ edit.tok \in kinds
  /\ edit.at > VertSecAt
  /\ edit.at <= Len(Written(mesh))
  /\ EditTarget \notin Range(Keyword)

\* C1: readMESH succeeds only if the five section lines begin, in this order,
\* with MeshVersionFormatted, Dimension, Vertices, Triangles, Tetrahedra; and a
\* different token at one of the five positions makes the call fail there with
\* a message that names the expected keyword and the token found.
C1_SectionOrder ==
  Done =>
    /\ ret = "true" =>
         /\ Len(seen) = 5
         /\ \A k \in 1..5 : seen[k].fresh /\ seen[k].tok = Keyword[k]
    /\ \A k \in 1..Len(seen) :
         (seen[k].fresh /\ seen[k].tok \notin {"", Keyword[k]}) =>
           /\ ret = "false"
           /\ k = Len(seen)
           /\ Keyword[k] \in Range(err)
           /\ seen[k].tok \in Range(err)

\* C2: after a successful read, a vertex-index field of a Triangles or
\* Tetrahedra record whose value in the file is k >= 1 is stored as k - 1, at
\* the same row and column of F (3 per row) or T (4 per row); the reference id
\* is not stored.
C2_Rebased ==
  (Done /\ ret = "true" /\ InPlace) =>
    /\ \A r \in 1..Declared(FaceSecAt, mesh.M) :
         /\ r \in DOMAIN F
         /\ Len(F[r]) = 3
         /\ \A j \in 1..3 :
              LET k == NumVal(file[FacePos(r, j)])
              IN  k >= 1 => F[r][j] = k - 1
    /\ \A r \in 1..Declared(TetSecAt, mesh.K) :
         /\ r \in DOMAIN T
         /\ Len(T[r]) = 4
         /\ \A j \in 1..4 :
              LET k == NumVal(file[TetPos(r, j)])
              IN  k >= 1 => T[r][j] = k - 1

\* an index field was overwritten with 2 and is stored as 1
C2_Witness ==
  /\ Done
  /\ ret = "true"
  /\ edit.op = "repl"
  /\ edit.tok = "2"
  /\ \E r \in 1..mesh.M, j \in 1..3 :
       /\ edit.at = FacePos(r, j)
       /\ Written(mesh)[edit.at] # "2"
       /\ F[r][j] = 1
  /\ T # <<>>

\* C3: a successful read of a well-formed file with declared counts N, M, K
\* yields N vertex rows, M face rows and K tetrahedron rows, row r holding the
\* r-th record of its section.
C3_RowsAsDeclared ==
  (Done /\ ret = "true" /\ WellFormed) =>
    /\ Len(V) = mesh.N
    /\ Len(F) = mesh.M
    /\ Len(T) = mesh.K
    /\ V = ExpectV
    /\ F = ExpectF
    /\ T = ExpectT

C3_Witness ==
  /\ Done
  /\ ret = "true"
  /\ WellFormed
  /\ mesh.N >= 2
  /\ mesh.M >= 2
  /\ mesh.K >= 1
  /\ V[2] = VertexRow(2)
  /\ F[2] # F[1]

\* C4: when readMESH fails after the file was opened, V, F and T hold no
\* partially read data.
C4_NoPartialData ==
  (Done /\ ret = "false" /\ exists) => (V = <<>> /\ F = <<>> /\ T = <<>>)

\* C5: the file opened at the start of readMESH is closed when the function
\* returns, on success and on every failure branch.
C5_ClosedOnReturn ==
  (Returned /\ exists) => fh = "closed"

\* C6: for every finite input readMESH eventually returns, also when the input
\* ends while the last line read was blank or a comment.  Stated for the files
\* that have at least one line, so that the line buffer is always one the
\* reader has read.
C6_Terminates == <>(Done \/ file = <<>>)

IsVersionErr(e) ==
  Len(e) = 8 /\ SubSeq(e, 1, 7) = <<"Error:", "second", "word", "should", "be", "1", "not">>
IsDimensionErr(e) ==
  Len(e) = 7 /\ SubSeq(e, 1, 6) = <<"Error:", "only", "Dimension", "3", "supported", "not">>

\* the file is as written, or has blank or comment lines before keyword lines
SectionsIntact == edit.op = "none" \/ BetweenSections({"blank", "hash", "mixed"})

\* C7: a MeshVersionFormatted value other than 1, or a Dimension value other
\* than 3, on the keyword's line or on the next line, makes the read fail with
\* the version / dimension message and leaves V, F and T empty, however
\* well-formed the sections after it are.
C7_UnsupportedValue ==
  (Done /\ SectionsIntact /\ ~GoodHeader) =>
    /\ ret = "false"
    /\ IF mesh.ver # 1
       THEN IsVersionErr(err) /\ err[8] = ToString(mesh.ver)
       ELSE IsDimensionErr(err) /\ err[7] = ToString(mesh.dim)
    /\ V = <<>>
    /\ F = <<>>
    /\ T = <<>>

\* Dimension 2 with the 2 on the line after the keyword
C7_Witness ==
  /\ Done
  /\ edit.op = "none"
  /\ mesh.ver = 1
  /\ mesh.dim = 2
  /\ mesh.dimNL
  /\ ret = "false"
  /\ IsDimensionErr(err)
  /\ err[7] = "2"
  /\ V = <<>>

\* the rows of the written mesh were read back
SameResult == ret = "true" /\ V = ExpectV /\ F = ExpectF /\ T = ExpectT

\* C8: blank lines and lines starting with # inserted between two sections of
\* a well-formed file (before the header line, before Dimension, Vertices,
\* Triangles or Tetrahedra) do not change the outcome: the read succeeds with
\* the same V, F and T.
C8_CommentsBetweenSections ==
  (Done /\ GoodHeader /\ BetweenSections({"blank", "hash", "mixed", "long"}))
    => SameResult

\* C9: a blank line or a line starting with # between a section keyword and
\* its count, between a count and its first record, or between two records
\* does not change the parsed result.
C9_CommentsInsideSections ==
  (Done /\ GoodHeader /\ InsideSection({"blank", "hash"})) => SameResult

\* C10: if the input ends after the n-th vertex record of a Vertices section
\* that declares N > n records, the read fails with a malformed-record error
\* for Vertices that carries the record index n, and no document is produced.
C10_TruncatedVertices ==
  \A n \in 0..(mesh.N - 1) :
    (Done /\ GoodHeader /\ edit.op = "trunc"
       /\ edit.at \in {VertRecEnd(n) - 1, VertRecEnd(n)}) =>
      /\ ret = "false"
      /\ "vertex" \in Range(err)
      /\ ToString(n) \in Range(err)
      /\ V = <<>>
      /\ F = <<>>
      /\ T = <<>>

\* the section (3, 4 or 5) and the 0-based index of the record that holds item
\* p of the written file
RecSection(p) == IF p < FaceSecAt THEN 3 ELSE IF p < TetSecAt THEN 4 ELSE 5

RecIndex(p) ==
  CASE RecSection(p) = 3 -> (p - (VertSecAt + 4)) \div Len(RecLine(VertexRow(1)))
    [] RecSection(p) = 4 -> (p - (FaceSecAt + 4)) \div Len(RecLine(FaceRow(1, 1)))
    [] RecSection(p) = 5 -> (p - (TetSecAt + 4)) \div Len(RecLine(TetRow(1, 1)))

\* item p of the written file is a field of a record, and not its first one
AfterField(p) ==
  /\ p > VertSecAt + 1
  /\ IsNum(Written(mesh)[p])
  /\ IsNum(Written(mesh)[p - 1])

\* the edit leaves one record line with fewer tokens than its record has: a
\* field other than the first is deleted, or the line is broken before it
ShortRecord ==
  /\ GoodHeader
  /\ \/ edit.op = "del"
     \/ edit.op = "put" /\ edit.tok = NL
  /\ AfterField(edit.at)

\* C11: a record line with fewer tokens than its record has (4 for a vertex
\* or a triangle, 5 for a tetrahedron) makes the read fail at that record, with
\* the record message of its section; the record is never completed from the
\* next line and the read never succeeds.
C11_ShortRecordFails ==
  (Done /\ ShortRecord) =>
    /\ ret = "false"
    /\ err = RecordMsg(RecSection(edit.at))
    /\ sec = RecSection(edit.at)
    /\ i = RecIndex(edit.at)

\* where the count of section k (3, 4 or 5) stands in the written file
CountAt(k) ==
  (CASE k = 3 -> VertSecAt [] k = 4 -> FaceSecAt [] k = 5 -> TetSecAt) + 2

\* the text of an unsigned integer
IsUnsigned(tok) == IsNum(tok) /\ NumVal(tok) >= 0

\* the count of section k is missing (the file ends before it, or its line is
\* left blank) or is not an unsigned integer
BadCount(k) ==
  /\ GoodHeader
  /\ \/ edit.op = "repl" /\ edit.at = CountAt(k) /\ ~IsUnsigned(edit.tok)
     \/ edit.op = "trunc" /\ edit.at \in {CountAt(k) - 2, CountAt(k) - 1}

\* the list section k fills
RowsOf(k) == CASE k = 3 -> V [] k = 4 -> F [] k = 5 -> T

\* C12: when the count of the Vertices, Triangles or Tetrahedra section is
\* absent or is not an unsigned integer (-1 included), the read fails with the
\* count message of that section, before a record of the section is read and
\* before a row of it is allocated.
C12_MalformedCount ==
  \A k \in 3..5 :
    (Done /\ BadCount(k)) =>
      /\ ret = "false"
      /\ err = CountMsg(k)
      /\ sec = k
      /\ RowsOf(k) = <<>>

\* the keyword check of section k was handed a line read for it that begins
\* with the keyword
Found(k) == k <= Len(seen) /\ seen[k] = [fresh |-> TRUE, tok |-> Keyword[k]]

\* C14: the values of MeshVersionFormatted and Dimension are taken from the
\* keyword's line, or else from the next token of the stream; whether a value
\* is on the keyword's line or on the following line, the outcome is the same
\* (the same V, F and T, or the same failure), and the section after it is
\* found.
C14_ValueOnEitherLine ==
  (Done /\ SectionsIntact) =>
    IF mesh.ver # 1
    THEN ret = "false" /\ err = ValueMsg(1, mesh.ver)
    ELSE /\ Found(2)
         /\ IF mesh.dim # 3
            THEN ret = "false" /\ err = ValueMsg(2, mesh.dim)
            ELSE Found(3) /\ SameResult

\* both values on the lines after their keywords, and the file read back
C14_Witness ==
  /\ Done
  /\ SectionsIntact
  /\ mesh.verNL
  /\ mesh.dimNL
  /\ GoodHeader
  /\ Found(2)
  /\ Found(3)
  /\ SameResult
  /\ mesh.N > 0

\* C15: after a successful read every index stored in F and in T lies in
\* [0, number of rows of V): none is negative (wrapped around from the file
\* value 0) and none reaches the number of vertices.
C15_IndexInRange ==
  (Done /\ ret = "true") =>
    /\ \A r \in DOMAIN F : \A j \in DOMAIN F[r] : F[r][j] \in 0..(Len(V) - 1)
    /\ \A r \in DOMAIN T : \A j \in DOMAIN T[r] : T[r][j] \in 0..(Len(V) - 1)

\* every row of the list has w entries
AllWide(rows, w) == \A r \in DOMAIN rows : Len(rows[r]) = w

C17_LineWasRead ==
  /\ pc \in {"test", "word"} => (fresh /\ line # <<Indeterminate>>)
  /\ \A k \in DOMAIN seen : seen[k].fresh /\ seen[k].tok # ""

\* the rows the caller's lists may hold before the call
PriorRows == UNION {Range(p) : p \in Prior}

\* a row of before the call is still in V, T or F
PriorRowLeft(v, t, f) == (Range(v) \cup Range(t) \cup Range(f)) \cap PriorRows # {}

\* C18: when the file cannot be opened, readMESH returns false and leaves the
\* caller's V, T and F as they were; on every other outcome the three lists
\* are emptied first, so that no row they held before the call is in them
\* when the call ends.
C18_OpenFailureKeepsLists ==
  [][/\ ~exists => (V' = V /\ T' = T /\ F' = F)
     /\ (~exists /\ pc' = "done") => ret' = "false"
     /\ (exists /\ pc' = "done") => ~PriorRowLeft(V', T', F')]_vars

\* the file could not be opened and the lists still hold the row of before
C18_Witness ==
  /\ Done
  /\ ~exists
  /\ ret = "false"
  /\ err = OpenMsg
  /\ V = <<<<7, 7, 7>>>>
  /\ T = V
  /\ F = V

====
